---------------------------- MODULE Spec2Model ----------------------------
(***************************************************************************)
(* A model of pycodex: marker-name normalisation and filename parsing      *)
(* (src/pycodex/io.py), the metadata catalog, its marker summary, the      *)
(* region/marker object, its subsetting and cropping, and the Mesmer batch *)
(* driver (src/pycodex/mobject.py), and min-max scaling and per-cell       *)
(* feature extraction (src/pycodex/segmentation.py).                       *)
(*                                                                         *)
(* Text (file names, marker names, region names) is a sequence of          *)
(* one-character strings, so that regular-expression matching, renaming    *)
(* and formatting are computed character by character.                     *)
(***************************************************************************)
EXTENDS Integers, Sequences, FiniteSets, TLC

VARIABLES
    pc,              \* position of the running call: "start", "loop", "done", "raised", "call", "returned",
                     \* and "modified" once the caller has modified an object it holds
    fn,              \* the function being called
    args,            \* its arguments (the files, tables and rasters it reads)
    ret,             \* what it returned, or that it raised
    heap,            \* the objects the call shares with its caller (dicts, DataFrames, arrays), by address
    marker_object,   \* batch driver: the region keys of marker_object, in dict order
    fault,           \* batch driver: per region, the step of the try block that raises ("none": no step)
    manifestFault,   \* batch driver: whether writing parameter_segmentation.json raises
    nextRegion,      \* batch driver: index of the next region of the for loop
    manifestWrites,  \* batch driver: number of times parameter_segmentation.json was written
    attempted,       \* batch driver: regions whose try block was entered, in order
    log,             \* batch driver: the logging.info records, in order
    artifacts        \* batch driver: the files written, as <<region, artifact>>

vars == <<pc, fn, args, ret, heap, marker_object, fault, manifestFault, nextRegion,
          manifestWrites, attempted, log, artifacts>>

batchVars == <<marker_object, fault, manifestFault, nextRegion, manifestWrites,
               attempted, log, artifacts>>

callVars == <<fn, args, ret, heap>>

(***************************************************************************)
(* Bounds of the model.                                                    *)
(***************************************************************************)
MaxRegions == 3

(***************************************************************************)
(* Generic helpers on sequences.                                           *)
(***************************************************************************)
Range(s) == {s[k] : k \in DOMAIN s}

\* all sequences over S of length 0..n
SeqsUpTo(S, n) == UNION {[1..k -> S] : k \in 0..n}

\* all sequences over S without repetition, of length 0..n
InjSeqsUpTo(S, n) ==
    {s \in SeqsUpTo(S, n) : \A a, b \in DOMAIN s : a # b => s[a] # s[b]}

(***************************************************************************)
(* marker_object_segmentation_mesmer (mobject.py 161-221).                 *)
(***************************************************************************)
RegionNames == 1..MaxRegions

\* the statements of the try block that can raise, in program order
FaultPoints == {"none", "segment", "makedirs", "mask", "rgb", "overlay"}

AllArtifacts == {"segmentation_mask", "rgb_image", "overlay"}

\* the artifacts tifffile.imwrite has written when the try block is left
ArtifactsWritten(fp) ==
    CASE fp = "none"     -> AllArtifacts
      [] fp = "overlay"  -> {"segmentation_mask", "rgb_image"}
      [] fp = "rgb"      -> {"segmentation_mask"}
      [] OTHER           -> {}

\* the record logging.info receives for a region
LogRecord(region, fp) ==
    IF fp = "none"
    THEN [level |-> "INFO", region |-> region, text |-> "Segmentation completed"]
    ELSE [level |-> "ERROR", region |-> region, text |-> fp]

BatchIdle ==
    /\ marker_object = <<>>
    /\ fault = <<>>
    /\ manifestFault = FALSE
    /\ nextRegion = 1
    /\ manifestWrites = 0
    /\ attempted = <<>>
    /\ log = <<>>
    /\ artifacts = {}

CallIdle ==
    /\ fn = "marker_object_segmentation_mesmer"
    /\ args = <<>>
    /\ ret = <<>>
    /\ heap = <<>>

InitBatch ==
    /\ pc = "start"
    /\ CallIdle
    /\ marker_object \in InjSeqsUpTo(RegionNames, MaxRegions)
    /\ fault \in [Range(marker_object) -> FaultPoints]
    /\ manifestFault \in BOOLEAN
    /\ nextRegion = 1
    /\ manifestWrites = 0
    /\ attempted = <<>>
    /\ log = <<>>
    /\ artifacts = {}

\* os.makedirs(output_dir), open(parameter_segmentation.json, "w"), json.dump
WriteManifest ==
    /\ pc = "start"
    /\ pc' = IF manifestFault THEN "raised" ELSE "loop"
    /\ manifestWrites' = IF manifestFault THEN manifestWrites ELSE manifestWrites + 1
    /\ UNCHANGED <<marker_object, fault, manifestFault, nextRegion, attempted, log,
                   artifacts, callVars>>

\* a variant of the loop body that writes the manifest inside the loop
ProcessRegionManifestPerRegion ==
    /\ pc = "loop"
    /\ nextRegion <= Len(marker_object)
    /\ LET region == marker_object[nextRegion]
       IN  /\ attempted' = Append(attempted, region)
           /\ artifacts' = artifacts \cup {<<region, a>> : a \in ArtifactsWritten(fault[region])}
           /\ log' = Append(log, LogRecord(region, fault[region]))
    /\ manifestWrites' = manifestWrites + 1
    /\ nextRegion' = nextRegion + 1
    /\ UNCHANGED <<pc, marker_object, fault, manifestFault, callVars>>

\* a variant of the loop body whose except clause re-raises
ProcessRegionReraise ==
    /\ pc = "loop"
    /\ nextRegion <= Len(marker_object)
    /\ LET region == marker_object[nextRegion]
       IN  /\ attempted' = Append(attempted, region)
           /\ artifacts' = artifacts \cup {<<region, a>> : a \in ArtifactsWritten(fault[region])}
           /\ log' = Append(log, LogRecord(region, fault[region]))
           /\ pc' = IF fault[region] = "none" THEN pc ELSE "raised"
    /\ nextRegion' = nextRegion + 1
    /\ UNCHANGED <<marker_object, fault, manifestFault, manifestWrites, callVars>>

\* one iteration of "for region, marker_dict in marker_object.items()": the try
\* block (segmentation_mesmer, os.makedirs, three imwrite, logging.info) and the
\* except clause (logging.info, continue)
ProcessRegion ==
    /\ pc = "loop"
    /\ nextRegion <= Len(marker_object)
    /\ LET region == marker_object[nextRegion]
       IN  /\ attempted' = Append(attempted, region)
           /\ artifacts' = artifacts \cup {<<region, a>> : a \in ArtifactsWritten(fault[region])}
           /\ log' = Append(log, LogRecord(region, fault[region]))
    /\ nextRegion' = nextRegion + 1
    /\ UNCHANGED <<pc, marker_object, fault, manifestFault, manifestWrites, callVars>>

\* the for loop is exhausted and the function returns None
FinishBatch ==
    /\ pc = "loop"
    /\ nextRegion > Len(marker_object)
    /\ pc' = "done"
    /\ UNCHANGED <<batchVars, callVars>>

NextBatch == WriteManifest \/ ProcessRegion \/ FinishBatch

SpecBatch == InitBatch /\ [][NextBatch]_vars

(***************************************************************************)
(* Claims about the batch driver.                                          *)
(***************************************************************************)
\* the set F of regions in which a step of the try block raises
FailingRegions == {r \in Range(marker_object) : fault[r] # "none"}

\* the regions the log reports as failed
ReportedFailed == {log[k].region : k \in {j \in DOMAIN log : log[j].level = "ERROR"}}

\* C1: once the manifest is written the batch never raises; at every point of
\* the loop the regions attempted are the prefix of the input processed so far
\* (each once, in input order); and when the batch is done every region was
\* attempted, the regions logged as failed (with the region and the error
\* text) are exactly F, and every region outside F has its three artifacts.
C1_FailureIsolation ==
    /\ (pc = "raised" => manifestFault /\ attempted = <<>>)
    /\ (pc \in {"loop", "done"} =>
            attempted = SubSeq(marker_object, 1, nextRegion - 1))
    /\ (pc = "done" =>
            /\ attempted = marker_object
            /\ ReportedFailed = FailingRegions
            /\ Len(log) = Len(marker_object)
            /\ \A k \in DOMAIN log :
                  /\ log[k].region = marker_object[k]
                  /\ log[k].level = "ERROR" => log[k].text = fault[log[k].region]
            /\ \A r \in Range(marker_object) \ FailingRegions :
                  \A a \in AllArtifacts : <<r, a>> \in artifacts)

\* a finished batch of three regions in which exactly one region failed
C1_Witness ==
    /\ pc = "done"
    /\ Len(marker_object) = 3
    /\ Cardinality(FailingRegions) = 1
    /\ fault[marker_object[2]] = "rgb"

\* C2: the manifest is written at most once; it has been written exactly once
\* whenever a region has been attempted and whenever the batch is in its loop
\* or done, whatever the number of regions and of failures.
C2_ManifestOnceBeforeRegions ==
    /\ manifestWrites <= 1
    /\ (attempted # <<>> => manifestWrites = 1)
    /\ (pc \in {"loop", "done"} => manifestWrites = 1)
    /\ (pc = "start" => attempted = <<>> /\ manifestWrites = 0)

\* a finished batch of two regions, both failed, with the manifest written once
C2_Witness ==
    /\ pc = "done"
    /\ Len(marker_object) = 2
    /\ FailingRegions = Range(marker_object)
    /\ manifestWrites = 1

(***************************************************************************)
(* Text: characters, decimal formatting, prefixes.                         *)
(***************************************************************************)
Digits == {"0", "1", "2", "3", "4", "5", "6", "7", "8", "9"}

DigitChar(d) == <<"0", "1", "2", "3", "4", "5", "6", "7", "8", "9">>[d + 1]

\* str(n) of a non-negative int, as the f-string formats it
RECURSIVE DecStr(_)
DecStr(n) == IF n < 10 THEN <<DigitChar(n)>>
             ELSE Append(DecStr(n \div 10), DigitChar(n % 10))

\* whether text s holds the literal lit at position p (1-based)
HasAt(s, p, lit) ==
    /\ p >= 1
    /\ p + Len(lit) - 1 <= Len(s)
    /\ \A k \in 1..Len(lit) : s[p + k - 1] = lit[k]

\* s[a..b] as text, empty when b < a
Slice(s, a, b) == IF b < a THEN <<>> ELSE SubSeq(s, a, b)

(***************************************************************************)
(* rename_invalid_marker and rename_duplicate_markers (io.py 11-46).       *)
(***************************************************************************)
\* re.sub(r"[/:]", "_", marker_name)
rename_invalid_marker(marker_name) ==
    [k \in DOMAIN marker_name |->
        IF marker_name[k] \in {"/", ":"} THEN "_" ELSE marker_name[k]]

\* the for loop of rename_duplicate_markers from position k on: seen is the
\* dict of counts (a function on the names seen), renamed the list built so far
RECURSIVE RenameLoop(_, _, _, _)
RenameLoop(marker_list, k, seen, renamed) ==
    IF k > Len(marker_list) THEN renamed
    ELSE LET marker == marker_list[k]
         IN  IF marker \in DOMAIN seen
             THEN LET n == seen[marker] + 1
                  IN  RenameLoop(marker_list, k + 1,
                                 [seen EXCEPT ![marker] = n],
                                 Append(renamed, marker \o <<"_">> \o DecStr(n)))
             ELSE RenameLoop(marker_list, k + 1,
                             [m \in DOMAIN seen \cup {marker} |->
                                 IF m = marker THEN 1 ELSE seen[m]],
                             Append(renamed, marker))

\* the same loop with the count of a first occurrence set to 0 instead of 1
RECURSIVE RenameLoopFromZero(_, _, _, _)
RenameLoopFromZero(marker_list, k, seen, renamed) ==
    IF k > Len(marker_list) THEN renamed
    ELSE LET marker == marker_list[k]
         IN  IF marker \in DOMAIN seen
             THEN LET n == seen[marker] + 1
                  IN  RenameLoopFromZero(marker_list, k + 1,
                                 [seen EXCEPT ![marker] = n],
                                 Append(renamed, marker \o <<"_">> \o DecStr(n)))
             ELSE RenameLoopFromZero(marker_list, k + 1,
                             [m \in DOMAIN seen \cup {marker} |->
                                 IF m = marker THEN 0 ELSE seen[m]],
                             Append(renamed, marker))

rename_duplicate_markers_from_zero(marker_list) ==
    RenameLoopFromZero(marker_list, 1, <<>>, <<>>)

rename_duplicate_markers(marker_list) == RenameLoop(marker_list, 1, <<>>, <<>>)

\* marker names used as inputs
CD3 == <<"C", "D", "3">>
CD4 == <<"C", "D", "4">>
CD3_2 == <<"C", "D", "3", "_", "2">>

MaxListLen == 4

RenameNames == {CD3, CD4, CD3_2}

InitRename ==
    /\ pc = "call"
    /\ fn = "rename_duplicate_markers"
    /\ args \in SeqsUpTo(RenameNames, MaxListLen)
    /\ ret = <<>>
    /\ heap = <<>>
    /\ BatchIdle

CallRenameDuplicateMarkers ==
    /\ pc = "call"
    /\ fn = "rename_duplicate_markers"
    /\ ret' = rename_duplicate_markers(args)
    /\ pc' = "returned"
    /\ UNCHANGED <<fn, args, heap, batchVars>>

NextRename == CallRenameDuplicateMarkers

SpecRename == InitRename /\ [][NextRename]_vars

\* the number of occurrences of the name at position i up to and including i
OccurrenceNo(names, i) == Cardinality({j \in 1..i : names[j] = names[i]})

\* C3: rename_duplicate_markers returns a list of the same length; position i
\* holds the input name unchanged when it is the first occurrence of that
\* name, and the name followed by "_" and k when it is the k-th (k >= 2).
C3_RenameDuplicates ==
    (pc = "returned" /\ fn = "rename_duplicate_markers") =>
        /\ Len(ret) = Len(args)
        /\ \A i \in DOMAIN args :
              ret[i] = IF OccurrenceNo(args, i) = 1 THEN args[i]
                       ELSE args[i] \o <<"_">> \o DecStr(OccurrenceNo(args, i))

\* the example of the specification: [CD3, CD3, CD4, CD3] -> [CD3, CD3_2, CD4, CD3_3]
C3_Witness ==
    /\ pc = "returned"
    /\ fn = "rename_duplicate_markers"
    /\ args = <<CD3, CD3, CD4, CD3>>
    /\ ret = <<CD3, CD3_2, CD4, <<"C", "D", "3", "_", "3">>>>

(***************************************************************************)
(* Filename parsers (io.py 54-70, 118-132).  A path is the sequence of its *)
(* components below marker_dir, the file name last.                        *)
(***************************************************************************)
Raised(e) == [raised |-> TRUE, error |-> e]

Returned(v) == [raised |-> FALSE, value |-> v]

\* os.path.basename(marker_path)
Basename(marker_path) == marker_path[Len(marker_path)]

\* os.path.basename(os.path.dirname(marker_path))
ParentName(marker_path) == marker_path[Len(marker_path) - 1]

\* \d+ tried at position p: the index of the last digit of the run of digits
\* starting at p (p - 1 when there is none)
RECURSIVE DigitsEnd(_, _)
DigitsEnd(s, p) ==
    IF p <= Len(s) /\ s[p] \in Digits THEN DigitsEnd(s, p + 1) ELSE p - 1

\* (tag\d+) tried at position p: the index of its last character, 0 when it
\* does not match.  What follows the group in the pattern is the literal "_",
\* which is no digit, so only the whole run of digits can lead to a match.
TagDigitsEnd(s, p, tag) ==
    IF HasAt(s, p, tag) /\ DigitsEnd(s, p + Len(tag)) >= p + Len(tag)
    THEN DigitsEnd(s, p + Len(tag))
    ELSE 0

\* (.+)lit tried with the group starting at position p: the group is greedy,
\* the match engine gives characters back one by one, so lit is found at its
\* last occurrence that leaves the group at least one character; 0 when none.
\* Nothing of the pattern follows lit and re.match does not anchor the end.
GreedyThenLit(s, p, lit) ==
    LET T == {q \in (p + 1)..Len(s) : HasAt(s, q, lit)}
    IN  IF T = {} THEN 0 ELSE CHOOSE q \in T : \A q2 \in T : q2 <= q

T_reg == <<"r", "e", "g">>
T_cyc == <<"c", "y", "c">>
T_ch == <<"c", "h">>
T_us == <<"_">>
T_tif == <<".", "t", "i", "f">>

NoMatch == [matched |-> FALSE, groups |-> <<>>]

\* re.match(r"(reg\d+)_(cyc\d+)_(ch\d+)_(.+)\.tif", marker_basename)
KeyenceMatch(b) ==
    LET e1 == TagDigitsEnd(b, 1, T_reg)
    IN  IF e1 = 0 \/ ~HasAt(b, e1 + 1, T_us) THEN NoMatch
        ELSE LET e2 == TagDigitsEnd(b, e1 + 2, T_cyc)
             IN  IF e2 = 0 \/ ~HasAt(b, e2 + 1, T_us) THEN NoMatch
                 ELSE LET e3 == TagDigitsEnd(b, e2 + 2, T_ch)
                      IN  IF e3 = 0 \/ ~HasAt(b, e3 + 1, T_us) THEN NoMatch
                          ELSE LET q == GreedyThenLit(b, e3 + 2, T_tif)
                               IN  IF q = 0 THEN NoMatch
                                   ELSE [matched |-> TRUE,
                                         groups |-> <<Slice(b, 1, e1),
                                                      Slice(b, e1 + 2, e2),
                                                      Slice(b, e2 + 2, e3),
                                                      Slice(b, e3 + 2, q - 1)>>]

\* re.match(r"(.+)\.tif", marker_basename)
FusionMatch(b) ==
    LET q == GreedyThenLit(b, 1, T_tif)
    IN  IF q = 0 THEN NoMatch
        ELSE [matched |-> TRUE, groups |-> <<Slice(b, 1, q - 1)>>]

\* match.groups() of a failed match raises AttributeError
parse_marker_keyence(marker_path) ==
    LET match == KeyenceMatch(Basename(marker_path))
    IN  IF ~match.matched THEN Raised("AttributeError")
        ELSE Returned([path |-> marker_path,
                       region |-> match.groups[1],
                       cycle |-> match.groups[2],
                       channel |-> match.groups[3],
                       marker |-> rename_invalid_marker(match.groups[4])])

parse_marker_fusion(marker_path) ==
    LET match == FusionMatch(Basename(marker_path))
    IN  IF ~match.matched THEN Raised("AttributeError")
        ELSE Returned([path |-> marker_path,
                       region |-> ParentName(marker_path),
                       marker |-> rename_invalid_marker(match.groups[1])])

(***************************************************************************)
(* parse_marker_keyence called on file names put together from well-formed *)
(* and malformed segments.                                                 *)
(***************************************************************************)
LeadParts == {<<>>, <<"x">>}
RegParts == {<<"r", "e", "g", "0", "0", "1">>, <<"r", "e", "g">>, <<"r", "g", "1">>}
SepParts == {<<"_">>, <<"-">>}
CycParts == {<<"c", "y", "c", "0", "0", "2">>, <<"c", "y", "c">>}
ChParts == {<<"_", "c", "h", "0", "0", "3">>, <<"_", "c", "h">>, <<>>}
MarkerParts == {<<"_", "C", "D", "4", "5">>, <<"_", "a", ":", "b">>, <<"_">>, <<>>}
ExtParts == {<<".", "t", "i", "f">>, <<".", "t", "i", "f", "f">>, <<".", "t", "x", "t">>, <<".", "t", "i", "f", ".", "b", "a", "k">>, <<>>}

KeyenceCandidates ==
    {l \o r \o s \o c \o h \o m \o e :
        l \in LeadParts, r \in RegParts, s \in SepParts, c \in CycParts,
        h \in ChParts, m \in MarkerParts, e \in ExtParts}

T_d1 == <<"d", "1">>

InitParseKeyence ==
    /\ pc = "call"
    /\ fn = "parse_marker_keyence"
    /\ args \in {<<T_d1, n>> : n \in KeyenceCandidates}
    /\ ret = <<>>
    /\ heap = <<>>
    /\ BatchIdle

CallParseMarkerKeyence ==
    /\ pc = "call"
    /\ fn = "parse_marker_keyence"
    /\ ret' = parse_marker_keyence(args)
    /\ pc' = "returned"
    /\ UNCHANGED <<fn, args, heap, batchVars>>

NextParseKeyence == CallParseMarkerKeyence

SpecParseKeyence == InitParseKeyence /\ [][NextParseKeyence]_vars

\* positions a..b of s are a non-empty run of digits
AllDigits(s, a, b) == a <= b /\ \A k \in a..b : s[k] \in Digits

\* the file name is reg<digits>_cyc<digits>_ch<digits>_<marker>.tif, the three
\* runs of digits ending at positions i1, i2 and i3, and nothing after .tif
KeyenceFormAt(b, i1, i2, i3) ==
    /\ HasAt(b, 1, T_reg) /\ AllDigits(b, 4, i1) /\ HasAt(b, i1 + 1, T_us)
    /\ HasAt(b, i1 + 2, T_cyc) /\ AllDigits(b, i1 + 5, i2) /\ HasAt(b, i2 + 1, T_us)
    /\ HasAt(b, i2 + 2, T_ch) /\ AllDigits(b, i2 + 4, i3) /\ HasAt(b, i3 + 1, T_us)
    /\ i3 + 2 <= Len(b) - 4
    /\ HasAt(b, Len(b) - 3, T_tif)

IsKeyenceForm(b) ==
    \E i1, i2, i3 \in 1..Len(b) : KeyenceFormAt(b, i1, i2, i3)

\* C8: parse_marker_keyence returns the four segments (the marker normalized)
\* of a file name of the form reg<digits>_cyc<digits>_ch<digits>_<marker>.tif
\* and raises on every other file name.
C8_KeyenceParseExact ==
    (pc = "returned" /\ fn = "parse_marker_keyence") =>
        LET b == Basename(args)
        IN  /\ ~IsKeyenceForm(b) => ret.raised
            /\ \A i1, i2, i3 \in 1..Len(b) :
                  KeyenceFormAt(b, i1, i2, i3) =>
                      /\ ~ret.raised
                      /\ ret.value.region = Slice(b, 1, i1)
                      /\ ret.value.cycle = Slice(b, i1 + 2, i2)
                      /\ ret.value.channel = Slice(b, i2 + 2, i3)
                      /\ ret.value.marker =
                            rename_invalid_marker(Slice(b, i3 + 2, Len(b) - 4))

(***************************************************************************)
(* Metadata catalog builder (io.py 73-110, 135-172).  marker_paths is the  *)
(* list os.walk yields for the region directory, in the order the file     *)
(* system gives.  A table (DataFrame) is the sequence of its rows.         *)
(***************************************************************************)
\* metadata_df["region"].unique().item() raises ValueError unless the column
\* holds exactly one distinct value (none when the directory has no file)
get_marker_metadata_fusion(marker_paths) ==
    LET parsed == [k \in DOMAIN marker_paths |-> parse_marker_fusion(marker_paths[k])]
    IN  IF \E k \in DOMAIN parsed : parsed[k].raised THEN Raised("AttributeError")
        ELSE LET metadata_df == [k \in DOMAIN parsed |-> parsed[k].value]
                 regions == {metadata_df[k].region : k \in DOMAIN metadata_df}
             IN  IF Cardinality(regions) # 1 THEN Raised("ValueError")
                 ELSE Returned([region |-> CHOOSE r \in regions : TRUE,
                                metadata_df |-> metadata_df])

get_marker_metadata_keyence(marker_paths) ==
    LET parsed == [k \in DOMAIN marker_paths |-> parse_marker_keyence(marker_paths[k])]
    IN  IF \E k \in DOMAIN parsed : parsed[k].raised THEN Raised("AttributeError")
        ELSE LET metadata_df == [k \in DOMAIN parsed |-> parsed[k].value]
                 regions == {metadata_df[k].region : k \in DOMAIN metadata_df}
             IN  IF Cardinality(regions) # 1 THEN Raised("ValueError")
                 ELSE Returned([region |-> CHOOSE r \in regions : TRUE,
                                metadata_df |-> metadata_df])

\* os.walk(os.path.join(marker_dir, subdir)): the files below subdir, in the
\* order of walk (the order in which the file system lists all files)
WalkOf(walk, subdir) == SelectSeq(walk, LAMBDA path : path[1] = subdir)

GetMarkerMetadata(scheme, marker_paths) ==
    IF scheme = "fusion" THEN get_marker_metadata_fusion(marker_paths)
    ELSE get_marker_metadata_keyence(marker_paths)

\* metadata_dict[region] = metadata_df: stores the table got holds, replacing
\* the table an earlier directory stored under the same region; a raise of
\* get_marker_metadata_* leaves organize_metadata_*
StoreRegion(metadata_dict, got) ==
    IF got.raised THEN got
    ELSE Returned([r \in DOMAIN metadata_dict \cup {got.value.region} |->
                      IF r = got.value.region THEN got.value.metadata_df
                      ELSE metadata_dict[r]])

\* the for loop over region_dirs from position k on; acc is the dict built so
\* far, or the exception that ended the loop
RECURSIVE OrganizeLoop(_, _, _, _, _)
OrganizeLoop(scheme, region_dirs, walk, k, acc) ==
    IF k > Len(region_dirs) \/ acc.raised THEN acc
    ELSE OrganizeLoop(scheme, region_dirs, walk, k + 1,
             StoreRegion(acc.value,
                         GetMarkerMetadata(scheme, WalkOf(walk, region_dirs[k]))))

\* region_dirs is os.listdir(marker_dir), in the order the file system gives
organize_metadata_fusion(region_dirs, walk) ==
    OrganizeLoop("fusion", region_dirs, walk, 1, Returned(<<>>))

organize_metadata_keyence(region_dirs, walk) ==
    OrganizeLoop("keyence", region_dirs, walk, 1, Returned(<<>>))

(***************************************************************************)
(* The catalog builder called on small directory trees.                    *)
(***************************************************************************)
MaxFiles == 2

T_d2 == <<"d", "2">>
T_d3 == <<"d", "3">>
T_x == <<"x">>

FusionFileNames ==
    {<<"C", "D", "3", ".", "t", "i", "f">>,
     <<"C", "D", ":", "3", ".", "t", "i", "f">>,
     <<"C", "D", "_", "3", ".", "t", "i", "f">>,
     <<"C", "D", "3", ".", "t", "i", "f", "f">>,
     <<"n", "o", "t", "e", "s", ".", "t", "x", "t">>}

KeyenceFileNames ==
    {<<"r", "e", "g", "1", "_", "c", "y", "c", "1", "_", "c", "h", "1", "_", "C", "D", "3", ".", "t", "i", "f">>,
     <<"r", "e", "g", "1", "_", "c", "y", "c", "2", "_", "c", "h", "2", "_", "C", "D", "3", ".", "t", "i", "f">>,
     <<"r", "e", "g", "2", "_", "c", "y", "c", "1", "_", "c", "h", "1", "_", "C", "D", "4", ".", "t", "i", "f">>,
     <<"r", "e", "g", "1", "_", "c", "y", "c", "1", "_", "c", "h", "1", "_", "C", "D", "3", ".", "t", "i", "f", "f">>,
     <<"n", "o", "t", "e", "s", ".", "t", "x", "t">>}

\* the files a tree may hold: directly in a subdirectory of marker_dir, or
\* one directory further down
TreeFiles(names) ==
    {<<d, n>> : d \in {T_d1, T_d2}, n \in names}
        \cup {<<d, T_x, n>> : d \in {T_d1, T_d2}, n \in names}

\* the subsets of S with at most n elements
SubsetsUpTo(S, n) == UNION {{Range(q) : q \in [1..k -> S]} : k \in 0..n}

Perms(S) == {q \in [1..Cardinality(S) -> S] : \A a, b \in DOMAIN q : a # b => q[a] # q[b]}

SchemeOf(f) ==
    IF f \in {"get_marker_metadata_fusion", "organize_metadata_fusion"}
    THEN "fusion" ELSE "keyence"

CatalogFns == {"get_marker_metadata_fusion", "get_marker_metadata_keyence",
               "organize_metadata_fusion", "organize_metadata_keyence"}

OrganizeFns == {"organize_metadata_fusion", "organize_metadata_keyence"}

\* args.files: the files of the tree; args.entries: what os.listdir(marker_dir)
\* holds (the subdirectories with files, and possibly an empty one);
\* args.region_dir: the directory get_marker_metadata_* is called on
InitCatalog ==
    /\ pc = "call"
    /\ fn \in CatalogFns
    /\ \E files \in SubsetsUpTo(TreeFiles(IF SchemeOf(fn) = "fusion"
                                          THEN FusionFileNames ELSE KeyenceFileNames),
                                MaxFiles),
          empty \in SUBSET {T_d3} :
          LET entries == {path[1] : path \in files} \cup empty
          IN  \E region_dir \in (IF fn \in OrganizeFns THEN {<<>>} ELSE entries) :
                 args = [files |-> files, entries |-> entries, region_dir |-> region_dir]
    /\ ret = <<>>
    /\ heap = <<>>
    /\ BatchIdle

CallGetMarkerMetadata ==
    /\ pc = "call"
    /\ fn \in CatalogFns \ OrganizeFns
    /\ \E walk \in Perms(args.files) :
          ret' = GetMarkerMetadata(SchemeOf(fn), WalkOf(walk, args.region_dir))
    /\ pc' = "returned"
    /\ UNCHANGED <<fn, args, heap, batchVars>>

CallOrganizeMetadata ==
    /\ pc = "call"
    /\ fn \in OrganizeFns
    /\ \E walk \in Perms(args.files), region_dirs \in Perms(args.entries) :
          ret' = IF fn = "organize_metadata_fusion"
                 THEN organize_metadata_fusion(region_dirs, walk)
                 ELSE organize_metadata_keyence(region_dirs, walk)
    /\ pc' = "returned"
    /\ UNCHANGED <<fn, args, heap, batchVars>>

NextCatalog == CallGetMarkerMetadata \/ CallOrganizeMetadata

SpecCatalog == InitCatalog /\ [][NextCatalog]_vars

(***************************************************************************)
(* Claims about the catalog builder.                                       *)
(***************************************************************************)
\* the tables of what a catalog-building call returned: the one table of
\* get_marker_metadata_*, every table of the dict of organize_metadata_*
TablesOf(f, r) ==
    IF f \in OrganizeFns THEN {r.value[key] : key \in DOMAIN r.value}
    ELSE {r.value.metadata_df}

\* the files below the directory a catalog-building call enumerates
FilesOf(f, a) ==
    IF f \in OrganizeFns THEN a.files
    ELSE {path \in a.files : path[1] = a.region_dir}

\* a file name that ends in .tif and has a marker in front of it
EndsInTif(b) == Len(b) > Len(T_tif) /\ HasAt(b, Len(b) - Len(T_tif) + 1, T_tif)

\* C4: in every per-region table the catalog builder returns, marker names
\* are pairwise distinct.
\* It is stated for the trees in which every file name ends in .tif, so that
\* what the parsers do with other names plays no part in it.
C4_MarkersDistinctPerRegion ==
    (/\ pc = "returned" /\ fn \in CatalogFns /\ ~ret.raised
     /\ \A path \in args.files : EndsInTif(Basename(path))) =>
        \A table \in TablesOf(fn, ret) :
            \A a, b \in DOMAIN table :
                a # b => table[a].marker # table[b].marker

\* C6: after a successful organize_metadata_*, every file below every
\* immediate subdirectory is the path of exactly one record of the catalog,
\* and every record's region is the key of the table that holds it.
C6_CatalogHoldsEveryFile ==
    (pc = "returned" /\ fn \in OrganizeFns /\ ~ret.raised) =>
        /\ \A path \in args.files :
              Cardinality({<<key, k>> \in
                              UNION {{key} \X DOMAIN ret.value[key] : key \in DOMAIN ret.value} :
                              ret.value[key][k].path = path}) = 1
        /\ \A key \in DOMAIN ret.value :
              \A k \in DOMAIN ret.value[key] : ret.value[key][k].region = key

\* C9: a fusion region build that returns holds, for every file enumerated,
\* exactly one record, whose region is the file's parent directory and whose
\* marker is the normalized file name without its .tif suffix, every file
\* name ending in .tif; a file whose name does not end in .tif, or has no
\* marker before .tif, makes the build raise.
C9_FusionRegionBuild ==
    (pc = "returned" /\ fn = "get_marker_metadata_fusion") =>
        /\ (\E path \in FilesOf(fn, args) : ~EndsInTif(Basename(path))) => ret.raised
        /\ ~ret.raised =>
              /\ Len(ret.value.metadata_df) = Cardinality(FilesOf(fn, args))
              /\ \A path \in FilesOf(fn, args) :
                    \E k \in DOMAIN ret.value.metadata_df :
                        /\ ret.value.metadata_df[k].path = path
                        /\ ret.value.metadata_df[k].region = ParentName(path)
                        /\ ret.value.metadata_df[k].marker =
                              rename_invalid_marker(
                                  Slice(Basename(path), 1, Len(Basename(path)) - Len(T_tif)))

(***************************************************************************)
(* metadata_dict_summary_marker (mobject.py 37-83).  A catalog             *)
(* (metadata_dict) is a function from region keys to tables.  The four     *)
(* lists returned are modelled as the sets of their members.               *)
(***************************************************************************)
LowerCase(c) ==
    CASE c = "B" -> "b" [] c = "L" -> "l" [] c = "A" -> "a"
      [] c = "N" -> "n" [] c = "K" -> "k" [] c = "C" -> "c" [] OTHER -> c

T_blank == <<"b", "l", "a", "n", "k">>

\* re.match(r"blank", marker, re.IGNORECASE): the pattern at the start of the name
IsBlank(marker) ==
    /\ Len(marker) >= Len(T_blank)
    /\ \A k \in 1..Len(T_blank) : LowerCase(marker[k]) = T_blank[k]

\* the rows of pd.concat(metadata_dict.values()), as <<key, row number>>
CombinedRows(metadata_dict) ==
    UNION {{key} \X DOMAIN metadata_dict[key] : key \in DOMAIN metadata_dict}

RowAt(metadata_dict, row) == metadata_dict[row[1]][row[2]]

\* pivot_table(index="marker", columns="region", aggfunc="size", fill_value=0)
\* of the rows kept in metadata_df: the cell of marker m and region r
PivotCount(metadata_dict, kept, m, r) ==
    Cardinality({row \in kept : /\ RowAt(metadata_dict, row).marker = m
                                /\ RowAt(metadata_dict, row).region = r})

metadata_dict_summary_marker(metadata_dict) ==
    LET combined == CombinedRows(metadata_dict)
        all_markers == {RowAt(metadata_dict, row).marker : row \in combined}
        blank_markers == {m \in all_markers : IsBlank(m)}
        \* metadata_df: the rows whose marker is not blank
        kept == {row \in combined : RowAt(metadata_dict, row).marker \notin blank_markers}
        \* the index and the columns of the pivot are the markers and the regions
        \* that occur in the rows kept
        index == {RowAt(metadata_dict, row).marker : row \in kept}
        columns == {RowAt(metadata_dict, row).region : row \in kept}
        missing_markers ==
            {m \in index : \E r \in columns : PivotCount(metadata_dict, kept, m, r) = 0}
        duplicated_markers ==
            {m \in index : \E r \in columns : PivotCount(metadata_dict, kept, m, r) > 1}
    IN  [unique_markers |-> all_markers \
                               (blank_markers \cup duplicated_markers \cup missing_markers),
         blank_markers |-> blank_markers,
         duplicated_markers |-> duplicated_markers,
         missing_markers |-> missing_markers]

(***************************************************************************)
(* metadata_dict_summary_marker called on catalogs of one or two regions.  *)
(***************************************************************************)
MaxRows == 4

M_A == <<"A">>
M_B == <<"B">>
M_C == <<"C">>
M_blank1 == <<"b", "l", "a", "n", "k", "1">>
M_Blank == <<"B", "l", "a", "n", "k">>
T_R1 == <<"R", "1">>
T_R2 == <<"R", "2">>

SummaryMarkers == <<M_A, M_B, M_C, M_blank1, M_Blank>>

\* the lists of at most n markers, one list for each multiset of markers
\* (the order of the rows of a table plays no part in the summary)
MarkerLists(markers, n) ==
    UNION {{[k \in 1..len |-> markers[ix[k]]] :
               ix \in {f \in [1..len -> DOMAIN markers] :
                          \A a, b \in 1..len : a <= b => f[a] <= f[b]}} :
           len \in 1..n}

\* the table of a region: one record per marker, the region column the key
TableOf(key, marker_list) ==
    [k \in DOMAIN marker_list |->
        [path |-> <<key, T_cyc \o DecStr(k) \o T_us \o marker_list[k] \o T_tif>>,
         region |-> key,
         marker |-> marker_list[k]]]

\* catalogs as the builder returns them: no table is empty.  Catalogs whose
\* markers are all blank are left out.
InitSummary ==
    /\ pc = "call"
    /\ fn = "metadata_dict_summary_marker"
    /\ \E keys \in {{T_R1}, {T_R1, T_R2}} :
          \E lists \in [keys -> MarkerLists(SummaryMarkers, MaxRows)] :
              /\ \E key \in keys : \E k \in DOMAIN lists[key] : ~IsBlank(lists[key][k])
              /\ args = [key \in keys |-> TableOf(key, lists[key])]
    /\ ret = <<>>
    /\ heap = <<>>
    /\ BatchIdle

CallMetadataDictSummaryMarker ==
    /\ pc = "call"
    /\ fn = "metadata_dict_summary_marker"
    /\ ret' = metadata_dict_summary_marker(args)
    /\ pc' = "returned"
    /\ UNCHANGED <<fn, args, heap, batchVars>>

NextSummary == CallMetadataDictSummaryMarker

SpecSummary == InitSummary /\ [][NextSummary]_vars

\* the markers of the table of region key, and how often marker m is in it
MarkersIn(metadata_dict, key) ==
    {metadata_dict[key][k].marker : k \in DOMAIN metadata_dict[key]}

TimesIn(metadata_dict, key, m) ==
    Cardinality({k \in DOMAIN metadata_dict[key] : metadata_dict[key][k].marker = m})

AllMarkersOf(metadata_dict) ==
    UNION {MarkersIn(metadata_dict, key) : key \in DOMAIN metadata_dict}

\* C5: the unique set is exactly the markers that are not blank and occur
\* exactly once in every region (key) of the catalog; it shares no marker
\* with the blank, duplicated and missing sets; and a marker that is not
\* blank and is absent from a region is in the missing set.
C5_UniqueMarkers ==
    (pc = "returned" /\ fn = "metadata_dict_summary_marker") =>
        /\ ret.unique_markers =
              {m \in AllMarkersOf(args) :
                  ~IsBlank(m) /\ \A key \in DOMAIN args : TimesIn(args, key, m) = 1}
        /\ ret.unique_markers \cap
              (ret.blank_markers \cup ret.duplicated_markers \cup ret.missing_markers) = {}
        /\ \A m \in AllMarkersOf(args) :
              (~IsBlank(m) /\ \E key \in DOMAIN args : TimesIn(args, key, m) = 0)
                  => m \in ret.missing_markers /\ m \notin ret.unique_markers

\* the example of the specification: R1 = {A, A, B, blank1}, R2 = {A, B, C}
\* gives the unique set {B}
C5_Example ==
    /\ pc = "returned"
    /\ fn = "metadata_dict_summary_marker"
    /\ args = (T_R1 :> TableOf(T_R1, <<M_A, M_A, M_B, M_blank1>>)
               @@ T_R2 :> TableOf(T_R2, <<M_A, M_B, M_C>>))
    /\ ret = [unique_markers |-> {M_B}, blank_markers |-> {M_blank1},
              duplicated_markers |-> {M_A}, missing_markers |-> {M_C}]

(***************************************************************************)
(* scale_marker and scale_marker_sum (segmentation.py 8-43).  A raster is  *)
(* the sequence of its pixels.  A float is an exact fraction num/den       *)
(* (den > 0) or NaN; the rounding of float64 is not modelled.              *)
(***************************************************************************)
Q(n, d) == [nan |-> FALSE, num |-> n, den |-> d]

NaN == [nan |-> TRUE, num |-> 0, den |-> 1]

AddQ(a, b) ==
    IF a.nan \/ b.nan THEN NaN ELSE Q(a.num * b.den + b.num * a.den, a.den * b.den)

SubQ(a, b) ==
    IF a.nan \/ b.nan THEN NaN ELSE Q(a.num * b.den - b.num * a.den, a.den * b.den)

\* a / b for a >= 0 and b >= 0: numpy gives nan for 0 / 0 and inf for x / 0
\* (a warning, no exception).  Here a <= b, so b = 0 only when a = 0.
DivQ(a, b) ==
    IF a.nan \/ b.nan \/ b.num = 0 THEN NaN ELSE Q(a.num * b.den, a.den * b.num)

LeQ(a, b) == a.num * b.den <= b.num * a.den

\* im.min() and im.max(): nan when a pixel is nan
MinQ(im) ==
    IF \E k \in DOMAIN im : im[k].nan THEN NaN
    ELSE im[CHOOSE k \in DOMAIN im : \A j \in DOMAIN im : LeQ(im[k], im[j])]

MaxQ(im) ==
    IF \E k \in DOMAIN im : im[k].nan THEN NaN
    ELSE im[CHOOSE k \in DOMAIN im : \A j \in DOMAIN im : LeQ(im[j], im[k])]

\* (im - im.min()) / (im.max() - im.min())
MinMax(im) ==
    [k \in DOMAIN im |-> DivQ(SubQ(im[k], MinQ(im)), SubQ(MaxQ(im), MinQ(im)))]

\* the integer raster read from the file, as floats
AsFloat(im) == [k \in DOMAIN im |-> Q(im[k], 1)]

scale_marker(marker, marker_dict, scale) ==
    IF scale THEN MinMax(AsFloat(marker_dict[marker]))
    ELSE AsFloat(marker_dict[marker])

\* np.sum(scale_marker_list, axis=0) from position k on
RECURSIVE SumRasters(_, _, _)
SumRasters(rasters, k, acc) ==
    IF k > Len(rasters) THEN acc
    ELSE SumRasters(rasters, k + 1, [p \in DOMAIN acc |-> AddQ(acc[p], rasters[k][p])])

\* .astype("uint8") of 255 * x for 0 <= x <= 1: the fraction is cut off; the
\* conversion of nan to an integer is undefined, nanCast is what the build gives
ToUInt8(x, nanCast) == IF x.nan THEN nanCast ELSE (255 * x.num) \div x.den

scale_marker_sum(marker_list, marker_dict, scale, nanCast) ==
    LET summed == SumRasters(
                      [k \in DOMAIN marker_list |->
                          scale_marker(marker_list[k], marker_dict, scale)],
                      2,
                      scale_marker(marker_list[1], marker_dict, scale))
    IN  [p \in DOMAIN summed |-> ToUInt8(MinMax(summed)[p], nanCast)]

(***************************************************************************)
(* scale_marker and scale_marker_sum called on small rasters.              *)
(***************************************************************************)
NPix == 2
MaxPixel == 2
UInt8Max == 255

Rasters == [1..NPix -> 0..MaxPixel]

ScaleMarkerLists == {<<M_A>>, <<M_B>>, <<M_A, M_B>>, <<M_A, M_A>>}

InitScale ==
    /\ pc = "call"
    /\ fn \in {"scale_marker", "scale_marker_sum"}
    /\ \E marker_dict \in [{M_A, M_B} -> Rasters], scale \in BOOLEAN :
          \E marker_list \in (IF fn = "scale_marker" THEN {<<M_A>>, <<M_B>>}
                              ELSE ScaleMarkerLists) :
              args = [marker_list |-> marker_list, marker_dict |-> marker_dict,
                      scale |-> scale]
    /\ ret = <<>>
    /\ heap = <<>>
    /\ BatchIdle

\* neither function has a raise statement: a call returns a raster
CallScaleMarker ==
    /\ pc = "call"
    /\ fn = "scale_marker"
    /\ ret' = Returned(scale_marker(args.marker_list[1], args.marker_dict, args.scale))
    /\ pc' = "returned"
    /\ UNCHANGED <<fn, args, heap, batchVars>>

CallScaleMarkerSum ==
    /\ pc = "call"
    /\ fn = "scale_marker_sum"
    /\ \E nanCast \in 0..UInt8Max :
          ret' = Returned(scale_marker_sum(args.marker_list, args.marker_dict,
                                           args.scale, nanCast))
    /\ pc' = "returned"
    /\ UNCHANGED <<fn, args, heap, batchVars>>

NextScale == CallScaleMarker \/ CallScaleMarkerSum

SpecScale == InitScale /\ [][NextScale]_vars

\* all pixels of the raster have one value
IsConstant(im) == \A a, b \in DOMAIN im : im[a] = im[b]

\* the sum of the scaled rasters of the markers is the same at every pixel
\* (every marker's raster having a range to scale by)
ScaledSumConstant(marker_list, marker_dict) ==
    LET scaled == [k \in DOMAIN marker_list |->
                      scale_marker(marker_list[k], marker_dict, TRUE)]
        summed == SumRasters(scaled, 2, scaled[1])
    IN  \A a, b \in DOMAIN summed :
            LeQ(summed[a], summed[b]) /\ LeQ(summed[b], summed[a])

\* C7: with scale enabled, scale_marker on a constant raster, and
\* scale_marker_sum on markers one of which is constant or whose scaled sum
\* is constant, end in an error and return no raster.
C7_DegenerateRangeRaises ==
    /\ (/\ pc = "returned" /\ fn = "scale_marker" /\ args.scale
        /\ IsConstant(args.marker_dict[args.marker_list[1]])) => ret.raised
    /\ (/\ pc = "returned" /\ fn = "scale_marker_sum" /\ args.scale
        /\ \/ \E k \in DOMAIN args.marker_list :
                 IsConstant(args.marker_dict[args.marker_list[k]])
           \/ ScaledSumConstant(args.marker_list, args.marker_dict)) => ret.raised

(***************************************************************************)
(* organize_marker_object (mobject.py 86-106).  images is what             *)
(* tifffile.imread gives for each path of the catalog.                     *)
(***************************************************************************)
\* a variant of the lookup that takes the first matching row where the code
\* takes .item()
LoadMarkerFirstMatch(marker_dict, metadata_df, marker, images) ==
    LET selected == SelectSeq(metadata_df, LAMBDA row : row.marker = marker)
    IN  IF Len(selected) = 0 THEN Raised("ValueError")
        ELSE Returned([m \in DOMAIN marker_dict \cup {marker} |->
                          IF m = marker THEN images[selected[1].path]
                          ELSE marker_dict[m]])

\* marker_path = metadata_df["path"][metadata_df["marker"] == marker].item();
\* marker_dict[marker] = tifffile.imread(marker_path).  item() raises
\* ValueError unless exactly one row is selected.
LoadMarker(marker_dict, metadata_df, marker, images) ==
    LET selected == SelectSeq(metadata_df, LAMBDA row : row.marker = marker)
    IN  IF Len(selected) # 1 THEN Raised("ValueError")
        ELSE Returned([m \in DOMAIN marker_dict \cup {marker} |->
                          IF m = marker THEN images[selected[1].path]
                          ELSE marker_dict[m]])

\* the inner for loop from position k on; acc is marker_dict, or the exception
RECURSIVE MarkerLoop(_, _, _, _, _)
MarkerLoop(metadata_df, marker_list, images, k, acc) ==
    IF k > Len(marker_list) \/ acc.raised THEN acc
    ELSE MarkerLoop(metadata_df, marker_list, images, k + 1,
                    LoadMarker(acc.value, metadata_df, marker_list[k], images))

\* marker_object[region] = marker_dict
StoreMarkerDict(marker_obj, region, got) ==
    IF got.raised THEN got
    ELSE Returned([r \in DOMAIN marker_obj \cup {region} |->
                      IF r = region THEN got.value ELSE marker_obj[r]])

\* the outer for loop over metadata_dict.items(), regions being its keys in
\* dict order, from position i on
RECURSIVE RegionLoop(_, _, _, _, _, _)
RegionLoop(metadata_dict, marker_list, images, regions, i, acc) ==
    IF i > Len(regions) \/ acc.raised THEN acc
    ELSE RegionLoop(metadata_dict, marker_list, images, regions, i + 1,
                    StoreMarkerDict(acc.value, regions[i],
                                    MarkerLoop(metadata_dict[regions[i]], marker_list,
                                               images, 1, Returned(<<>>))))

organize_marker_object(metadata_dict, marker_list, images, regions) ==
    RegionLoop(metadata_dict, marker_list, images, regions, 1, Returned(<<>>))

(***************************************************************************)
(* organize_marker_object called on catalogs of one or two regions.        *)
(***************************************************************************)
MaxLoadRows == 3
MaxSelected == 2

LoadMarkers == <<M_A, M_B, M_C>>

\* the raster stored at a path: every file holds its own pixel values
ImageOf(regionNo, row) == <<regionNo, row>>

RegionNo(key) == IF key = T_R1 THEN 1 ELSE 2

InitLoad ==
    /\ pc = "call"
    /\ fn = "organize_marker_object"
    /\ \E keys \in {{T_R1}, {T_R1, T_R2}} :
          \E lists \in [keys -> MarkerLists(LoadMarkers, MaxLoadRows)],
             marker_list \in SeqsUpTo({M_A, M_B}, MaxSelected) :
              LET metadata_dict == [key \in keys |-> TableOf(key, lists[key])]
              IN  args = [metadata_dict |-> metadata_dict,
                          marker_list |-> marker_list,
                          images |-> [path \in {RowAt(metadata_dict, row).path :
                                                   row \in CombinedRows(metadata_dict)} |->
                                         LET row == CHOOSE row \in CombinedRows(metadata_dict) :
                                                        RowAt(metadata_dict, row).path = path
                                         IN  ImageOf(RegionNo(row[1]), row[2])]]
    /\ ret = <<>>
    /\ heap = <<>>
    /\ BatchIdle

CallOrganizeMarkerObject ==
    /\ pc = "call"
    /\ fn = "organize_marker_object"
    /\ \E regions \in Perms(DOMAIN args.metadata_dict) :
          ret' = organize_marker_object(args.metadata_dict, args.marker_list,
                                        args.images, regions)
    /\ pc' = "returned"
    /\ UNCHANGED <<fn, args, heap, batchVars>>

NextLoad == CallOrganizeMarkerObject

SpecLoad == InitLoad /\ [][NextLoad]_vars

\* C10: organize_marker_object raises exactly when some requested marker
\* matches no record or several records in some region of the catalog;
\* otherwise the object's region keys are the catalog's, the marker keys of
\* every region are the selected markers, and each raster is the one read
\* from the path of the one matching record.
C10_OrganizeMarkerObject ==
    (pc = "returned" /\ fn = "organize_marker_object") =>
        /\ ret.raised <=>
              \E key \in DOMAIN args.metadata_dict, k \in DOMAIN args.marker_list :
                  TimesIn(args.metadata_dict, key, args.marker_list[k]) # 1
        /\ ~ret.raised =>
              /\ DOMAIN ret.value = DOMAIN args.metadata_dict
              /\ \A key \in DOMAIN ret.value :
                    /\ DOMAIN ret.value[key] = Range(args.marker_list)
                    /\ \A m \in DOMAIN ret.value[key] :
                          \E k \in DOMAIN args.metadata_dict[key] :
                              /\ args.metadata_dict[key][k].marker = m
                              /\ ret.value[key][m] =
                                    args.images[args.metadata_dict[key][k].path]

\* an object of two regions and two markers was returned from a catalog that
\* also holds a marker that was not selected
C10_Witness ==
    /\ pc = "returned"
    /\ fn = "organize_marker_object"
    /\ ~ret.raised
    /\ DOMAIN ret.value = {T_R1, T_R2}
    /\ args.marker_list = <<M_B, M_A>>
    /\ M_C \in MarkersIn(args.metadata_dict, T_R2)
    /\ ret.value[T_R2][M_B] = ImageOf(2, 2)

(***************************************************************************)
(* Subsetting and cropping (mobject.py 18-34, 114-130, 133-158).           *)
(*                                                                         *)
(* A Python dict, DataFrame or array is an object with an identity: a name *)
(* or a dict entry holds a reference to it, and every reference to one     *)
(* object sees the writes made through any other.  heap is the sequence of *)
(* the objects, an object's address is its index in heap.  A dict keeps    *)
(* its entries in insertion order.  An ndarray is a window on a pixel      *)
(* buffer, and a basic slice of an ndarray is another window on the same   *)
(* buffer (a numpy view).                                                  *)
(***************************************************************************)
PyDict(items) == [kind |-> "dict", items |-> items]

Entry(key, ref) == [key |-> key, ref |-> ref]

DataFrame(rows) == [kind |-> "DataFrame", rows |-> rows]

\* the window is rows r0 .. r1 - 1 and columns c0 .. c1 - 1 of the buffer, counted from 0
NDArray(base, r0, r1, c0, c1) ==
    [kind |-> "ndarray", base |-> base, rows |-> <<r0, r1>>, cols |-> <<c0, c1>>]

Buffer(px) == [kind |-> "buffer", px |-> px]

Keys(items) == {items[k].key : k \in DOMAIN items}

\* d[key]
GetItem(items, key) == items[CHOOSE k \in DOMAIN items : items[k].key = key].ref

\* d[key] = ref
SetItem(items, key, ref) ==
    IF key \in Keys(items)
    THEN [k \in DOMAIN items |-> IF items[k].key = key THEN Entry(key, ref) ELSE items[k]]
    ELSE Append(items, Entry(key, ref))

\* del d[key]
DelItem(items, key) == SelectSeq(items, LAMBDA e : e.key # key)

Height(im) == im.rows[2] - im.rows[1]

Width(im) == im.cols[2] - im.cols[1]

\* the pixels an ndarray shows, as rows of columns
Pixels(h, a) ==
    [i \in 1..Height(h[a]) |->
        [j \in 1..Width(h[a]) |-> h[h[a].base].px[h[a].rows[1] + i][h[a].cols[1] + j]]]

\* what an object holds, followed through every reference
RECURSIVE Contents(_, _)
Contents(h, a) ==
    CASE h[a].kind = "dict" ->
            {<<h[a].items[k].key, Contents(h, h[a].items[k].ref)>> : k \in DOMAIN h[a].items}
      [] h[a].kind = "DataFrame" -> h[a].rows
      [] h[a].kind = "ndarray" -> Pixels(h, a)
      [] OTHER -> h[a].px

\* "for region in region_list: subset[region] = d[region]"; an absent region
\* raises KeyError
RECURSIVE SubsetLoop(_, _, _, _)
SubsetLoop(items, region_list, k, acc) ==
    IF k > Len(region_list) \/ acc.raised
    THEN acc
    ELSE SubsetLoop(items, region_list, k + 1,
                    IF region_list[k] \in Keys(items)
                    THEN Returned(SetItem(acc.value, region_list[k],
                                          GetItem(items, region_list[k])))
                    ELSE Raised("KeyError"))

\* the result of a call: the heap it leaves and what it returns
metadata_dict_subset_region(h, metadata_dict, region_list) ==
    LET got == SubsetLoop(h[metadata_dict].items, region_list, 1, Returned(<<>>))
    IN  IF got.raised
        THEN [heap |-> h, ret |-> got]
        ELSE [heap |-> Append(h, PyDict(got.value)), ret |-> Returned(Len(h) + 1)]

marker_object_subset_region(h, marker_object_ref, region_list) ==
    LET got == SubsetLoop(h[marker_object_ref].items, region_list, 1, Returned(<<>>))
    IN  IF got.raised
        THEN [heap |-> h, ret |-> got]
        ELSE [heap |-> Append(h, PyDict(got.value)), ret |-> Returned(Len(h) + 1)]

\* int(t / 2): float division, then truncation toward zero
IntHalf(t) == IF t >= 0 THEN t \div 2 ELSE -((-t) \div 2)

\* one bound of the slice a[i:j] of an axis of n elements: a negative index
\* counts from the end, and the bound is clipped to 0..n
SliceIndex(i, n) ==
    IF i < 0
    THEN (IF i + n < 0 THEN 0 ELSE i + n)
    ELSE (IF i > n THEN n ELSE i)

\* the elements a[i:j] selects, as <<first, one past the last>>
SliceIndices(i, j, n) ==
    <<SliceIndex(i, n),
      IF SliceIndex(j, n) < SliceIndex(i, n) THEN SliceIndex(i, n) ELSE SliceIndex(j, n)>>

\* int(mid - length / 2) : int(mid + length / 2) on an axis of n elements
CropSlice(mid, length, n) ==
    SliceIndices(IntHalf(2 * mid - length), IntHalf(2 * mid + length), n)

\* im[rs[1]:rs[2], cs[1]:cs[2]]: a window on the buffer of im
View(im, rs, cs) ==
    NDArray(im.base, im.rows[1] + rs[1], im.rows[1] + rs[2],
            im.cols[1] + cs[1], im.cols[1] + cs[2])

CropImage(im, x_mid, y_mid, length) ==
    View(im, CropSlice(y_mid, length, Height(im)), CropSlice(x_mid, length, Width(im)))

\* "cropped_marker_dict[marker] = cropped_im"; acc is the heap and the entries so far
CropMarker(acc, entry, x_mid, y_mid, length) ==
    [heap |-> Append(acc.heap, CropImage(acc.heap[entry.ref], x_mid, y_mid, length)),
     items |-> SetItem(acc.items, entry.key, Len(acc.heap) + 1)]

RECURSIVE CropMarkerLoop(_, _, _, _, _, _)
CropMarkerLoop(marker_items, k, acc, x_mid, y_mid, length) ==
    IF k > Len(marker_items)
    THEN acc
    ELSE CropMarkerLoop(marker_items, k + 1,
                        CropMarker(acc, marker_items[k], x_mid, y_mid, length),
                        x_mid, y_mid, length)

\* "cropped_marker_object[region] = cropped_marker_dict"
CropRegion(acc, entry, x_mid, y_mid, length) ==
    LET inner == CropMarkerLoop(acc.heap[entry.ref].items, 1,
                                [heap |-> acc.heap, items |-> <<>>],
                                x_mid, y_mid, length)
    IN  [heap |-> Append(inner.heap, PyDict(inner.items)),
         items |-> SetItem(acc.items, entry.key, Len(inner.heap) + 1)]

RECURSIVE CropRegionLoop(_, _, _, _, _, _)
CropRegionLoop(region_items, k, acc, x_mid, y_mid, length) ==
    IF k > Len(region_items)
    THEN acc
    ELSE CropRegionLoop(region_items, k + 1,
                        CropRegion(acc, region_items[k], x_mid, y_mid, length),
                        x_mid, y_mid, length)

marker_object_crop_subregion(h, marker_object_ref, x_mid, y_mid, length) ==
    LET out == CropRegionLoop(h[marker_object_ref].items, 1,
                              [heap |-> h, items |-> <<>>], x_mid, y_mid, length)
    IN  [heap |-> Append(out.heap, PyDict(out.items)),
         ret |-> Returned(Len(out.heap) + 1)]

(***************************************************************************)
(* What a caller can do afterwards with an object it holds: store, delete  *)
(* or replace a marker entry of a region, write a pixel.                   *)
(***************************************************************************)
\* obj[region][marker] = a new 1 x 1 raster, or, in a catalog, the row of marker
\* in obj[region] set (appended when absent)
StoreMarker(h, obj, region, marker) ==
    LET c == GetItem(h[obj].items, region)
    IN  IF h[c].kind = "dict"
        THEN Append(Append([h EXCEPT ![c].items = SetItem(@, marker, Len(h) + 1)],
                           NDArray(Len(h) + 2, 0, 1, 0, 1)),
                    Buffer(<<<<0>>>>))
        ELSE [h EXCEPT ![c].rows =
                IF \E k \in DOMAIN @ : @[k].marker = marker
                THEN [k \in DOMAIN @ |->
                        IF @[k].marker = marker
                        THEN [marker |-> marker, path |-> marker \o T_us \o T_tif] ELSE @[k]]
                ELSE Append(@, [marker |-> marker, path |-> marker \o T_us \o T_tif])]

\* del obj[region][marker], or, in a catalog, the rows of marker dropped in place
DeleteMarker(h, obj, region, marker) ==
    LET c == GetItem(h[obj].items, region)
    IN  IF h[c].kind = "dict"
        THEN [h EXCEPT ![c].items = DelItem(@, marker)]
        ELSE [h EXCEPT ![c].rows = SelectSeq(@, LAMBDA row : row.marker # marker)]

\* obj[region][marker][r, c] = v
StorePixel(h, obj, region, marker, r, c, v) ==
    LET a == GetItem(h[GetItem(h[obj].items, region)].items, marker)
    IN  [h EXCEPT ![h[a].base].px[h[a].rows[1] + r + 1][h[a].cols[1] + c + 1] = v]

\* the markers of obj[region]
MarkersOf(h, obj, region) ==
    LET c == GetItem(h[obj].items, region)
    IN  IF h[c].kind = "dict"
        THEN Keys(h[c].items)
        ELSE {h[c].rows[k].marker : k \in DOMAIN h[c].rows}

(***************************************************************************)
(* Calls of the three functions on a catalog or a marker object, followed  *)
(* by one modification through the result or through the input.            *)
(***************************************************************************)
RasterSide == 4
MaxLength == 4
MaxRegionList == 2

T_R3 == <<"R", "3">>

\* raster number n: every pixel of every raster has a value of its own
ImagePixels(n) ==
    [i \in 1..RasterSide |->
        [j \in 1..RasterSide |-> n * RasterSide * RasterSide + RasterSide * (i - 1) + j]]

\* {R1: {A: im, B: im}, R2: {A: im}}
MarkerHeap ==
    <<PyDict(<<Entry(T_R1, 2), Entry(T_R2, 3)>>),
      PyDict(<<Entry(M_A, 4), Entry(M_B, 5)>>),
      PyDict(<<Entry(M_A, 6)>>),
      NDArray(7, 0, RasterSide, 0, RasterSide),
      NDArray(8, 0, RasterSide, 0, RasterSide),
      NDArray(9, 0, RasterSide, 0, RasterSide),
      Buffer(ImagePixels(0)),
      Buffer(ImagePixels(1)),
      Buffer(ImagePixels(2))>>

\* {R1: DataFrame(marker, path), R2: DataFrame(marker, path)}
MetadataHeap ==
    <<PyDict(<<Entry(T_R1, 2), Entry(T_R2, 3)>>),
      DataFrame(<<[marker |-> M_A, path |-> M_A \o T_tif],
                  [marker |-> M_B, path |-> M_B \o T_tif]>>),
      DataFrame(<<[marker |-> M_A, path |-> M_A \o T_tif]>>)>>

SubsetFns == {"metadata_dict_subset_region", "marker_object_subset_region"}

SubsetCropFns == SubsetFns \cup {"marker_object_crop_subregion"}

\* the region lists of the calls: R3 is absent from the input
RegionLists == SeqsUpTo({T_R1, T_R2, T_R3}, MaxRegionList)

InitSubsetCrop ==
    /\ pc = "call"
    /\ ret = <<>>
    /\ BatchIdle
    /\ \/ /\ fn = "metadata_dict_subset_region"
          /\ heap = MetadataHeap
          /\ args \in [metadata_dict : {1}, region_list : RegionLists]
       \/ /\ fn = "marker_object_subset_region"
          /\ heap = MarkerHeap
          /\ args \in [marker_object : {1}, region_list : RegionLists]
       \/ /\ fn = "marker_object_crop_subregion"
          /\ heap = MarkerHeap
          /\ args \in [marker_object : {1}, x_mid : 0..RasterSide, y_mid : 0..RasterSide,
                       length : 1..MaxLength]

CallMetadataDictSubsetRegion ==
    /\ pc = "call"
    /\ fn = "metadata_dict_subset_region"
    /\ LET out == metadata_dict_subset_region(heap, args.metadata_dict, args.region_list)
       IN  heap' = out.heap /\ ret' = out.ret
    /\ pc' = "returned"
    /\ UNCHANGED <<fn, args, batchVars>>

CallMarkerObjectSubsetRegion ==
    /\ pc = "call"
    /\ fn = "marker_object_subset_region"
    /\ LET out == marker_object_subset_region(heap, args.marker_object, args.region_list)
       IN  heap' = out.heap /\ ret' = out.ret
    /\ pc' = "returned"
    /\ UNCHANGED <<fn, args, batchVars>>

CallMarkerObjectCropSubregion ==
    /\ pc = "call"
    /\ fn = "marker_object_crop_subregion"
    /\ LET out == marker_object_crop_subregion(heap, args.marker_object, args.x_mid,
                                               args.y_mid, args.length)
       IN  heap' = out.heap /\ ret' = out.ret
    /\ pc' = "returned"
    /\ UNCHANGED <<fn, args, batchVars>>

\* the object the call was given
InputOf == IF fn = "metadata_dict_subset_region" THEN args.metadata_dict ELSE args.marker_object

Returned2Caller == pc = "returned" /\ fn \in SubsetCropFns /\ ~ret.raised

\* the heap changes by an entry stored, an entry deleted, a pixel written through obj
StoresMarker(obj) ==
    \E region \in Keys(heap[obj].items), marker \in {M_A, M_C} :
        heap' = StoreMarker(heap, obj, region, marker)

DeletesMarker(obj) ==
    \E region \in Keys(heap[obj].items) :
        \E marker \in MarkersOf(heap, obj, region) :
            heap' = DeleteMarker(heap, obj, region, marker)

WritesPixel(obj) ==
    /\ fn # "metadata_dict_subset_region"
    /\ \E region \in Keys(heap[obj].items) :
        \E marker \in MarkersOf(heap, obj, region) :
            LET im == heap[GetItem(heap[GetItem(heap[obj].items, region)].items, marker)]
            IN  \E r \in 0..(Height(im) - 1), c \in 0..(Width(im) - 1) :
                    heap' = StorePixel(heap, obj, region, marker, r, c, 0)

StoreMarkerEntry ==
    /\ Returned2Caller
    /\ \E obj \in {InputOf, ret.value} : StoresMarker(obj)
    /\ pc' = "modified"
    /\ UNCHANGED <<fn, args, ret, batchVars>>

DeleteMarkerEntry ==
    /\ Returned2Caller
    /\ \E obj \in {InputOf, ret.value} : DeletesMarker(obj)
    /\ pc' = "modified"
    /\ UNCHANGED <<fn, args, ret, batchVars>>

WritePixel ==
    /\ Returned2Caller
    /\ \E obj \in {InputOf, ret.value} : WritesPixel(obj)
    /\ pc' = "modified"
    /\ UNCHANGED <<fn, args, ret, batchVars>>

NextSubsetCrop ==
    \/ CallMetadataDictSubsetRegion
    \/ CallMarkerObjectSubsetRegion
    \/ CallMarkerObjectCropSubregion
    \/ StoreMarkerEntry
    \/ DeleteMarkerEntry
    \/ WritePixel

SpecSubsetCrop == InitSubsetCrop /\ [][NextSubsetCrop]_vars

\* a step that modifies the heap through obj
ModifiedThrough(obj) ==
    /\ Returned2Caller
    /\ pc' = "modified"
    /\ StoresMarker(obj) \/ DeletesMarker(obj) \/ WritesPixel(obj)

\* what C11 asks of one step
IndependentStep ==
    fn \in SubsetCropFns =>
        /\ (pc = "call" /\ pc' = "returned") =>
              /\ Contents(heap', InputOf) = Contents(heap, InputOf)
              /\ ~ret'.raised => ret'.value \notin 1..Len(heap)
              /\ fn \in SubsetFns =>
                    (ret'.raised <=>
                        \E k \in DOMAIN args.region_list :
                            args.region_list[k] \notin Keys(heap[InputOf].items))
        /\ ModifiedThrough(ret.value) =>
              Contents(heap', InputOf) = Contents(heap, InputOf)
        /\ ModifiedThrough(InputOf) =>
              Contents(heap', ret.value) = Contents(heap, ret.value)

\* C11: a call of metadata_dict_subset_region, marker_object_subset_region or
\* marker_object_crop_subregion leaves the contents of its input unchanged and
\* returns an object that is not the input; subsetting raises exactly when the
\* region list names a region absent from the input; and after the call, a step
\* that stores, deletes or replaces a marker entry of a region or writes a pixel
\* through the returned object leaves the contents of the input unchanged, and
\* such a step through the input leaves the contents of the returned object
\* unchanged.
C11_SubsetCropIndependent == [][IndependentStep]_vars

\* a subset of region R1 was returned and a marker C was then stored in R1: the
\* entry is seen through the input and through the subset
C11_Witness ==
    /\ pc = "modified"
    /\ fn = "marker_object_subset_region"
    /\ args.region_list = <<T_R1>>
    /\ M_C \in MarkersOf(heap, args.marker_object, T_R1)
    /\ M_C \in MarkersOf(heap, ret.value, T_R1)

\* C12: for every side length L >= 1 and integer centre (x, y) with the window
\* [y - L/2, y + L/2) x [x - L/2, x + L/2) inside the raster, the crop of every
\* raster is the window [int(y - L/2), int(y + L/2)) x [int(x - L/2), int(x + L/2))
\* of its source, has L rows and L columns, and its pixel in row L div 2, column
\* L div 2 is pixel (x, y), row y column x, of the source.
C12_CropWindowCentre ==
    (pc = "returned" /\ fn = "marker_object_crop_subregion") =>
        \A region \in Keys(heap[args.marker_object].items) :
            \A marker \in MarkersOf(heap, args.marker_object, region) :
                LET src == GetItem(heap[GetItem(heap[args.marker_object].items, region)].items,
                                   marker)
                    out == GetItem(heap[GetItem(heap[ret.value].items, region)].items, marker)
                    x == args.x_mid
                    y == args.y_mid
                    L == args.length
                IN  (/\ 0 <= 2 * y - L /\ 2 * y + L <= 2 * Height(heap[src])
                     /\ 0 <= 2 * x - L /\ 2 * x + L <= 2 * Width(heap[src])) =>
                        /\ Pixels(heap, out) =
                              [i \in 1..L |-> [j \in 1..L |->
                                  Pixels(heap, src)[IntHalf(2 * y - L) + i]
                                                   [IntHalf(2 * x - L) + j]]]
                        /\ IntHalf(2 * y + L) - IntHalf(2 * y - L) = L
                        /\ IntHalf(2 * x + L) - IntHalf(2 * x - L) = L
                        /\ Pixels(heap, out)[(L \div 2) + 1][(L \div 2) + 1] =
                              Pixels(heap, src)[y + 1][x + 1]

(***************************************************************************)
(* IEEE-754 binary64 arithmetic on the non-negative values the feature     *)
(* tables hold.  A float is zero or mant * 2^exp, mant being MantissaBits  *)
(* bits, most significant first, the first of them 1.  Division and        *)
(* multiplication round to nearest, ties to even, as numpy does.  The      *)
(* magnitudes of the model are far from overflow and from subnormals; the  *)
(* digits are computed a few at a time (9 for a quotient, 18 for a         *)
(* product), which serves divisors and factors below 2^13.                 *)
(***************************************************************************)
MantissaBits == 53

FloatZero == [zero |-> TRUE, mant |-> <<>>, exp |-> 0]

Float(mant, exp) == [zero |-> FALSE, mant |-> mant, exp |-> exp]

\* the number of binary digits of n >= 0 (none for 0)
RECURSIVE BitLen(_)
BitLen(n) == IF n = 0 THEN 0 ELSE 1 + BitLen(n \div 2)

\* the last width binary digits of n, most significant first
PadBits(n, width) == [k \in 1..width |-> (n \div (2 ^ (width - k))) % 2]

\* the binary digits of n >= 0, most significant first
Bits(n) == PadBits(n, BitLen(n))

\* the number whose binary digits are bits
RECURSIVE IntOf(_)
IntOf(bits) ==
    IF bits = <<>>
    THEN 0
    ELSE 2 * IntOf(SubSeq(bits, 1, Len(bits) - 1)) + bits[Len(bits)]

\* bits + 1; one bit longer when every bit is 1
RECURSIVE Increment(_)
Increment(bits) ==
    IF bits = <<>>
    THEN <<1>>
    ELSE IF bits[Len(bits)] = 0
         THEN Append(SubSeq(bits, 1, Len(bits) - 1), 1)
         ELSE Append(Increment(SubSeq(bits, 1, Len(bits) - 1)), 0)

\* bits (first bit 1, at least MantissaBits of them) followed by a non-zero
\* tail when sticky, the bit MantissaBits of weight 2^exp: the nearest float,
\* ties to even
RoundToFloat(bits, sticky, exp) ==
    LET kept == SubSeq(bits, 1, MantissaBits)
        half == Len(bits) > MantissaBits /\ bits[MantissaBits + 1] = 1
        tail == sticky \/ \E k \in (MantissaBits + 2)..Len(bits) : bits[k] = 1
        up == half /\ (tail \/ kept[MantissaBits] = 1)
    IN  IF ~up
        THEN Float(kept, exp)
        ELSE IF Len(Increment(kept)) > MantissaBits
             THEN Float(SubSeq(Increment(kept), 1, MantissaBits), exp + 1)
             ELSE Float(Increment(kept), exp)

\* 9 * count more binary digits of r / n by long division (0 <= r < n), 9 at a
\* time; acc holds the digits so far
RECURSIVE DivBits(_, _, _, _)
DivBits(r, n, count, acc) ==
    IF count = 0
    THEN [bits |-> acc, rem |-> r]
    ELSE DivBits((r * 2 ^ 9) % n, n, count - 1, acc \o PadBits((r * 2 ^ 9) \div n, 9))

\* the number of zeros that start the binary fraction of r / n (0 < r < n)
RECURSIVE LeadingZeros(_, _)
LeadingZeros(r, n) == IF 2 * r >= n THEN 0 ELSE 1 + LeadingZeros(2 * r, n)

\* float(s) / float(n) for integers s >= 0, n >= 1: the first MantissaBits
\* digits of the quotient and enough of the following ones to round
FloatDiv(s, n) ==
    IF s = 0
    THEN FloatZero
    ELSE IF s \div n > 0
         THEN LET whole == Bits(s \div n)
                  frac == DivBits(s % n, n, 6, <<>>)
              IN  RoundToFloat(whole \o frac.bits, frac.rem # 0, Len(whole) - MantissaBits)
         ELSE LET z == LeadingZeros(s, n)
                  frac == DivBits(s * 2 ^ z, n, 7, <<>>)
              IN  RoundToFloat(frac.bits, frac.rem # 0, -(z + MantissaBits))

\* float(s) for an integer s >= 0 below 2^31
FloatOfInt(s) ==
    IF s = 0
    THEN FloatZero
    ELSE Float(Bits(s) \o [k \in 1..(MantissaBits - BitLen(s)) |-> 0], BitLen(s) - MantissaBits)

\* the digits of mant * n, mant taken as three numbers of 17, 18 and 18 digits
MulBits(mant, n) ==
    LET lo == IntOf(SubSeq(mant, MantissaBits - 17, MantissaBits)) * n
        mid == IntOf(SubSeq(mant, MantissaBits - 35, MantissaBits - 18)) * n + lo \div 2 ^ 18
        hi == IntOf(SubSeq(mant, 1, MantissaBits - 36)) * n + mid \div 2 ^ 18
    IN  Bits(hi) \o PadBits(mid % 2 ^ 18, 18) \o PadBits(lo % 2 ^ 18, 18)

\* q * float(n) for a float q and an integer n >= 1
FloatMulInt(q, n) ==
    IF q.zero
    THEN FloatZero
    ELSE RoundToFloat(MulBits(q.mant, n), FALSE,
                      q.exp + Len(MulBits(q.mant, n)) - MantissaBits)

(***************************************************************************)
(* extract_cell_features_from_segmentation (segmentation.py 101-141).      *)
(*                                                                         *)
(* A raster or mask is a sequence of rows; a coordinate is <<row, column>> *)
(* counted from 0.  marker_dict is the sequence of its entries, in dict    *)
(* order.  skimage.measure.regionprops yields one region per label         *)
(* 1, 2, ... that occurs in the mask, in increasing order of label, with   *)
(* its pixel coordinates in row-major order; area is their number and      *)
(* centroid their mean.  A table is its column names and its rows.         *)
(***************************************************************************)
\* the coordinates of an array of rows x cols pixels, row-major
CoordSeq(rows, cols) == [k \in 1..(rows * cols) |-> <<(k - 1) \div cols, (k - 1) % cols>>]

\* region.coords
RegionCoords(mask, label) ==
    SelectSeq(CoordSeq(Len(mask), Len(mask[1])),
              LAMBDA coord : mask[coord[1] + 1][coord[2] + 1] = label)

\* segmentation_mask.max()
MaxOf(mask) ==
    CHOOSE v \in {mask[i][j] : i \in DOMAIN mask, j \in DOMAIN mask[1]} :
        \A i \in DOMAIN mask, j \in DOMAIN mask[1] : mask[i][j] <= v

\* a variant of the scan that numbers the regions 1, 2, ... in the order found
RECURSIVE RegionScanRelabel(_, _, _, _)
RegionScanRelabel(mask, label, last, acc) ==
    IF label > last
    THEN acc
    ELSE RegionScanRelabel(mask, label + 1, last,
                    IF RegionCoords(mask, label) = <<>>
                    THEN acc
                    ELSE Append(acc, [label |-> Len(acc) + 1,
                                      coords |-> RegionCoords(mask, label)]))

\* the scan of the labels label .. last; labels are not renumbered
RECURSIVE RegionScan(_, _, _, _)
RegionScan(mask, label, last, acc) ==
    IF label > last
    THEN acc
    ELSE RegionScan(mask, label + 1, last,
                    IF RegionCoords(mask, label) = <<>>
                    THEN acc
                    ELSE Append(acc, [label |-> label, coords |-> RegionCoords(mask, label)]))

\* skimage.measure.regionprops(segmentation_mask)
regionprops(mask) == RegionScan(mask, 1, MaxOf(mask), <<>>)

\* the sum of component axis of the coordinates k .. Len(coords)
RECURSIVE CoordSum(_, _, _, _)
CoordSum(coords, axis, k, acc) ==
    IF k > Len(coords) THEN acc ELSE CoordSum(coords, axis, k + 1, acc + coords[k][axis])

\* one row of props_df: label, area, centroid
PropsRow(region) ==
    [cellLabel |-> region.label,
     cellSize |-> Len(region.coords),
     Y_cent |-> FloatDiv(CoordSum(region.coords, 1, 1, 0), Len(region.coords)),
     X_cent |-> FloatDiv(CoordSum(region.coords, 2, 1, 0), Len(region.coords))]

\* np.sum over region.coords of one marker's raster: exact, in a 64-bit integer
RECURSIVE RegionSum(_, _, _, _)
RegionSum(im, coords, k, acc) ==
    IF k > Len(coords)
    THEN acc
    ELSE RegionSum(im, coords, k + 1, acc + im[coords[k][1] + 1][coords[k][2] + 1])

\* sums[i]: one value per marker, in the order of marker_name
SumsRow(marker_dict, region) ==
    [m \in DOMAIN marker_dict |-> RegionSum(marker_dict[m].im, region.coords, 1, 0)]

\* avgs[i] = sums[i] / region.area
AvgsRow(marker_dict, region) ==
    [m \in DOMAIN marker_dict |-> FloatDiv(SumsRow(marker_dict, region)[m], Len(region.coords))]

PropsColumns == <<"cellLabel", "cellSize", "Y_cent", "X_cent">>

\* pd.concat([props_df, values_df], axis=1)
Table(marker_dict, props, values) ==
    [columns |-> PropsColumns \o [m \in DOMAIN marker_dict |-> marker_dict[m].key],
     rows |-> [i \in DOMAIN props |-> [props |-> props[i], markers |-> values[i]]]]

\* np.stack raises ValueError on an empty list of rasters
extract_cell_features_from_segmentation(marker_dict, segmentation_mask) ==
    IF marker_dict = <<>>
    THEN Raised("ValueError")
    ELSE LET stats == regionprops(segmentation_mask)
             props == [i \in DOMAIN stats |-> PropsRow(stats[i])]
             sums == [i \in DOMAIN stats |->
                        [m \in DOMAIN marker_dict |->
                            FloatOfInt(SumsRow(marker_dict, stats[i])[m])]]
             avgs == [i \in DOMAIN stats |-> AvgsRow(marker_dict, stats[i])]
         IN  Returned([data |-> Table(marker_dict, props, sums),
                       data_scale_size |-> Table(marker_dict, props, avgs)])

(***************************************************************************)
(* Calls of extract_cell_features_from_segmentation on every mask of       *)
(* MaskRows x MaskCols pixels with labels 0..MaxLabel.                     *)
(***************************************************************************)
MaskRows == 2
MaskCols == 4
MaxLabel == 2

\* pixel number k (row-major, from 1) holds k
IndexRaster == [i \in 1..MaskRows |-> [j \in 1..MaskCols |-> MaskCols * (i - 1) + j]]

\* pixel number k holds 2^(k-1): a sum tells which pixels were added
RECURSIVE Pow2(_)
Pow2(k) == IF k = 0 THEN 1 ELSE 2 * Pow2(k - 1)

WeightRaster == [i \in 1..MaskRows |-> [j \in 1..MaskCols |-> Pow2(MaskCols * (i - 1) + j - 1)]]

FeatureMarkerDicts ==
    {<<>>,
     <<[key |-> M_A, im |-> IndexRaster]>>,
     <<[key |-> M_A, im |-> IndexRaster], [key |-> M_B, im |-> WeightRaster]>>,
     <<[key |-> M_B, im |-> WeightRaster], [key |-> M_A, im |-> IndexRaster]>>}

InitFeatures ==
    /\ pc = "call"
    /\ fn = "extract_cell_features_from_segmentation"
    /\ args \in [marker_dict : FeatureMarkerDicts, segmentation_mask : [1..MaskRows -> [1..MaskCols -> 0..MaxLabel]]]
    /\ ret = <<>>
    /\ heap = <<>>
    /\ BatchIdle

CallExtractCellFeaturesFromSegmentation ==
    /\ pc = "call"
    /\ fn = "extract_cell_features_from_segmentation"
    /\ ret' = extract_cell_features_from_segmentation(args.marker_dict, args.segmentation_mask)
    /\ pc' = "returned"
    /\ UNCHANGED <<fn, args, heap, batchVars>>

NextFeatures == CallExtractCellFeaturesFromSegmentation

SpecFeatures == InitFeatures /\ [][NextFeatures]_vars

\* the pixels of the mask that carry label
PixelsOf(mask, label) ==
    {p \in (DOMAIN mask) \X (DOMAIN mask[1]) : mask[p[1]][p[2]] = label}

\* the labels of the mask other than 0
LabelsOf(mask) == {mask[i][j] : i \in DOMAIN mask, j \in DOMAIN mask[1]} \ {0}

\* the sum of im over a set of pixels
RECURSIVE SumOver(_, _)
SumOver(im, pixels) ==
    IF pixels = {}
    THEN 0
    ELSE im[(CHOOSE p \in pixels : TRUE)[1]][(CHOOSE p \in pixels : TRUE)[2]]
         + SumOver(im, pixels \ {CHOOSE p \in pixels : TRUE})

\* what C13 asks of the rows, the labels, the sizes and the sums: two tables
\* with one row per non-zero label, the same labels, sizes and centroids in
\* the same order, cellSize the number of pixels of the label, and each sum
\* column the exact sum of its marker over those pixels
FeatureTablesAgree ==
    /\ ~ret.raised
    /\ Len(ret.value.data.rows) = Cardinality(LabelsOf(args.segmentation_mask))
    /\ {ret.value.data.rows[i].props.cellLabel : i \in DOMAIN ret.value.data.rows}
          = LabelsOf(args.segmentation_mask)
    /\ DOMAIN ret.value.data_scale_size.rows = DOMAIN ret.value.data.rows
    /\ ret.value.data.columns = ret.value.data_scale_size.columns
    /\ ret.value.data.columns =
          PropsColumns \o [m \in DOMAIN args.marker_dict |-> args.marker_dict[m].key]
    /\ \A i \in DOMAIN ret.value.data.rows :
          /\ ret.value.data_scale_size.rows[i].props = ret.value.data.rows[i].props
          /\ ret.value.data.rows[i].props.cellSize =
                Cardinality(PixelsOf(args.segmentation_mask,
                                     ret.value.data.rows[i].props.cellLabel))
          /\ \A m \in DOMAIN args.marker_dict :
                ret.value.data.rows[i].markers[m] =
                    FloatOfInt(SumOver(args.marker_dict[m].im,
                                       PixelsOf(args.segmentation_mask,
                                                ret.value.data.rows[i].props.cellLabel)))

\* C13 as stated: for every mask and non-empty marker raster set, the tables
\* agree as above and, in each row, the average-table value times cellSize
\* equals the sum-table value.
C13_AverageTimesSizeIsSum ==
    (/\ pc = "returned" /\ fn = "extract_cell_features_from_segmentation"
     /\ args.marker_dict # <<>>) =>
        /\ FeatureTablesAgree
        /\ \A i \in DOMAIN ret.value.data.rows :
              \A m \in DOMAIN args.marker_dict :
                  FloatMulInt(ret.value.data_scale_size.rows[i].markers[m],
                              ret.value.data.rows[i].props.cellSize)
                      = ret.value.data.rows[i].markers[m]

\* C13 amended: for every mask and non-empty marker raster set, the tables
\* agree as above and, in each row, the average-table value is the
\* double-precision quotient of the exact sum by cellSize, rounded to nearest.
C13_AverageIsRoundedQuotient ==
    (/\ pc = "returned" /\ fn = "extract_cell_features_from_segmentation"
     /\ args.marker_dict # <<>>) =>
        /\ FeatureTablesAgree
        /\ \A i \in DOMAIN ret.value.data.rows :
              \A m \in DOMAIN args.marker_dict :
                  ret.value.data_scale_size.rows[i].markers[m] =
                      FloatDiv(SumOver(args.marker_dict[m].im,
                                       PixelsOf(args.segmentation_mask,
                                                ret.value.data.rows[i].props.cellLabel)),
                               Cardinality(PixelsOf(args.segmentation_mask,
                                                    ret.value.data.rows[i].props.cellLabel)))

\* a mask whose only label is 2, on seven pixels that sum to 29: one row, of
\* label 2, whose average times 7 is not 29
C13_Witness ==
    /\ pc = "returned"
    /\ fn = "extract_cell_features_from_segmentation"
    /\ args.marker_dict # <<>>
    /\ args.marker_dict[1].key = M_A
    /\ LabelsOf(args.segmentation_mask) = {2}
    /\ Len(ret.value.data.rows) = 1
    /\ ret.value.data.rows[1].props.cellLabel = 2
    /\ ret.value.data.rows[1].props.cellSize = 7
    /\ ret.value.data.rows[1].markers[1] = FloatOfInt(29)
    /\ FloatMulInt(ret.value.data_scale_size.rows[1].markers[1], 7) # FloatOfInt(29)

=============================================================================
